---- MODULE Spec2Model ----
(***************************************************************************)
(* Model of the record-decoding core of crates/arroyo-formats/src/de.rs:   *)
(* FramingIterator and ArrowDeserializer (deserialize_slice, flush_buffer).*)
(*                                                                         *)
(* Indexes and offsets are 0-based as in the source; a Rust slice          *)
(* buf[a..b] is Slice(buf, a, b).                                          *)
(***************************************************************************)
EXTENDS Integers, Sequences, FiniteSets, TLC

(* ------------------------------ bounds -------------------------------- *)
\* longest input given to a FramingIterator on its own
MaxLen == 4
\* largest max_line_length tried
MaxCap == 2
\* most framed records in one message pushed into the deserializer
MaxRecs == 2
\* most entries staged in any builder (rows of the decoder, side channels,
\* the caller's builders) before the model stops pushing
MaxStaged == 2
MaxElapsed == 3
MaxPushed == 3

(* ----------------------------- constants ------------------------------ *)
\* b'\n'
NL == 10
\* the null of a column the JSON documents do not carry
Null == -1

Min(a, b) == IF a <= b THEN a ELSE b

\* the Rust slice s[a..b]
Slice(s, a, b) == SubSeq(s, a + 1, b)

(* ------------------------ FramingIterator ----------------------------- *)
\* Option<Arc<Framing>>: no framing, or newline framing with an optional cap
NoFraming == [some |-> FALSE, capped |-> FALSE, max_line_length |-> 0]
Newline(capped, cap) == [some |-> TRUE, capped |-> capped, max_line_length |-> cap]

\* memchr::memchr(b'\n', &buf[offset..]).map(|i| offset + i).unwrap_or(buf.len())
MemchrEnd_Last(buf, offset) ==
    LET hits == {i \in offset..(Len(buf) - 1) : buf[i + 1] = NL}
    IN IF hits = {} THEN Len(buf)
       ELSE CHOOSE i \in hits : \A j \in hits : i >= j
MemchrEnd(buf, offset) ==
    LET hits == {i \in offset..(Len(buf) - 1) : buf[i + 1] = NL}
    IN IF hits = {} THEN Len(buf)
       ELSE CHOOSE i \in hits : \A j \in hits : i <= j

\* length of the record cut from buf[prev..end]: (end - prev).min(cap)
FrameLength_NoCap(framing, prev, end) == end - prev
FrameLength(framing, prev, end) ==
    \* unwrap_or(u64::MAX): without a cap the minimum is end - prev
    IF framing.capped THEN Min(end - prev, framing.max_line_length) ELSE end - prev

\* FramingIterator::next: the item (when some) and the offset afterwards
FramingNext_AlwaysNewline(framing, buf, offset) ==
    IF offset >= Len(buf)
    THEN [some |-> FALSE, item |-> <<>>, offset |-> offset]
    ELSE LET end == MemchrEnd(buf, offset)
             prev == offset
             length == FrameLength(framing, prev, end)
         IN [some |-> TRUE,
             item |-> Slice(buf, prev, prev + length),
             offset |-> end + 1]
FramingNext_ResumeAfterCap(framing, buf, offset) ==
    IF offset >= Len(buf)
    THEN [some |-> FALSE, item |-> <<>>, offset |-> offset]
    ELSE IF framing.some
    THEN LET end == MemchrEnd(buf, offset)
             prev == offset
             length == FrameLength(framing, prev, end)
         IN [some |-> TRUE,
             item |-> Slice(buf, prev, prev + length),
             offset |-> Min(end, prev + length) + 1]
    ELSE [some |-> TRUE, item |-> buf, offset |-> Len(buf)]
FramingNext_StaysAtDelimiter(framing, buf, offset) ==
    IF offset >= Len(buf)
    THEN [some |-> FALSE, item |-> <<>>, offset |-> offset]
    ELSE IF framing.some
    THEN LET end == MemchrEnd(buf, offset)
             prev == offset
             length == FrameLength(framing, prev, end)
         IN [some |-> TRUE,
             item |-> Slice(buf, prev, prev + length),
             offset |-> end]
    ELSE [some |-> TRUE, item |-> buf, offset |-> Len(buf)]
FramingNext_KeepsDelimiter(framing, buf, offset) ==
    IF offset >= Len(buf)
    THEN [some |-> FALSE, item |-> <<>>, offset |-> offset]
    ELSE IF framing.some
    THEN LET end == MemchrEnd(buf, offset)
             prev == offset
             length == FrameLength(framing, prev, end)
         IN [some |-> TRUE,
             item |-> Slice(buf, prev, Min(end + 1, Len(buf))),
             offset |-> end + 1]
    ELSE [some |-> TRUE, item |-> buf, offset |-> Len(buf)]
FramingNext(framing, buf, offset) ==
    IF offset >= Len(buf)
    THEN [some |-> FALSE, item |-> <<>>, offset |-> offset]
    ELSE IF framing.some
    THEN LET end == MemchrEnd(buf, offset)
             prev == offset
             length == FrameLength(framing, prev, end)
         IN [some |-> TRUE,
             item |-> Slice(buf, prev, prev + length),
             offset |-> end + 1]
    ELSE [some |-> TRUE, item |-> buf, offset |-> Len(buf)]

\* the records a FramingIterator over buf yields, collected (the iterator is
\* consumed to its end by deserialize_slice)
RECURSIVE FrameFrom(_, _, _)
FrameFrom(framing, buf, offset) ==
    LET n == FramingNext(framing, buf, offset)
    IN IF n.some THEN <<n.item>> \o FrameFrom(framing, buf, n.offset) ELSE <<>>
FrameAll(framing, buf) == FrameFrom(framing, buf, 0)


(* --------------------------- target schema ---------------------------- *)
\* ArroyoSchema.schema: the output columns in order; "value" is the data
\* column, topic/partition/offset are the queue-metadata columns
SchemaColumns == <<"value", "topic", "_timestamp", "partition", "offset">>
\* Schema::column_with_name(name): the index of the column (it is present)
column_with_name(name) ==
    (CHOOSE i \in 1..Len(SchemaColumns) : SchemaColumns[i] = name) - 1

\* ArroyoSchema.timestamp_index
timestamp_index == column_with_name("_timestamp")

\* Vec::insert(index, element) and Vec::remove(index)
VecInsert(v, index, e) == SubSeq(v, 1, index) \o <<e>> \o SubSeq(v, index + 1, Len(v))
VecRemove(v, index) == SubSeq(v, 1, index) \o SubSeq(v, index + 2, Len(v))

\* ArroyoSchema::schema_without_timestamp: the columns handed to the decoder
schema_without_timestamp == VecRemove(SchemaColumns, timestamp_index)

(* ------------------------------ inputs -------------------------------- *)
Formats ==
    {"Json", "JsonConfluent", "JsonUnstructured", "RawString", "RawBytes", "Avro",
     "AvroUnstructured", "Protobuf", "ProtobufUnstructured", "Parquet"}
\* Format::Json(json) with unstructured: false; JsonConfluent is the format
\* with json.confluent_schema_registry set
IsJsonFormat(fmt) == fmt \in {"Json", "JsonConfluent"}
\* Format::RawString(_) | Format::Json(JsonFormat { unstructured: true, .. })
IsRawString(fmt) == fmt \in {"RawString", "JsonUnstructured"}
\* Format::Avro(_)
IsAvro(fmt) == fmt \in {"Avro", "AvroUnstructured"}
\* Format::Protobuf(proto); ProtobufUnstructured is the format with
\* proto.into_unstructured_json set
IsProtobuf(fmt) == fmt \in {"Protobuf", "ProtobufUnstructured"}
\* the formats for which with_schema_resolver builds json_decoder (every
\* Json, and Avro and Protobuf with into_unstructured_json: false)
HasJsonDecoder(fmt) ==
    fmt \in {"Json", "JsonConfluent", "JsonUnstructured", "Avro", "Protobuf"}
\* the formats whose records are accumulated in the incremental decoder
UsesDecoder(fmt) == IsJsonFormat(fmt) \/ fmt \in {"Avro", "Protobuf"}
BadDataPolicies == {"Fail", "Drop"}

\* A record of the Json format is one JSON document, written here as one
\* byte: '5' stands for {"value":5}, '"' for a document whose value is a
\* string (well-formed, wrong type for the integer column), '}' and ']' for
\* two texts that are not JSON.
JsonText == [long5 |-> 53, string |-> 34, badA |-> 125, badB |-> 93]
Doc5 == JsonText.long5
DocStr == JsonText.string
DocBadA == JsonText.badA
DocBadB == JsonText.badB
JsonBytes == {Doc5, DocStr, DocBadA, DocBadB}
\* Raw payload bytes: an ASCII byte and a byte that is not valid UTF-8
RawBytes == {Doc5, 255}

\* SystemTime since the epoch, as std::time::Duration keeps it
Timestamps == {[secs |-> 1, nanos |-> 5], [secs |-> 2, nanos |-> 0]}

\* kafka_metadata: (enabled, offset, partition, topic); topics are numbered
NoMetadata == [enabled |-> FALSE, offset |-> 0, partition |-> 0, topic |-> 0]
MetadataA == [enabled |-> TRUE, offset |-> 10, partition |-> 1, topic |-> 100]
MetadataB == [enabled |-> TRUE, offset |-> 11, partition |-> 2, topic |-> 101]
Metadata == {NoMetadata, MetadataA, MetadataB}

\* the (arrival time, metadata) pairs of the messages pushed
Arrivals ==
    {a \in Timestamps \X Metadata :
        a[2].enabled => (a[1].secs = 1 <=> a[2] = MetadataA)}

\* the records of a message, joined by newlines
RECURSIVE JoinNL(_)
JoinNL(recs) ==
    IF Len(recs) = 0 THEN <<>>
    ELSE IF Len(recs) = 1 THEN recs[1]
    ELSE recs[1] \o <<NL>> \o JoinNL(Tail(recs))

\* the Confluent envelope before a document (a zero byte and a 4-byte
\* schema id), and a record that is shorter than an envelope
Envelope == <<0, 0, 0, 0, 1>>
ShortRecord == <<0>>

\* A Protobuf record is written as one byte: a message whose value field
\* is the integer 5, and bytes that are not a message of the descriptor.
ProtoText == [long5 |-> 8, corrupt |-> 7]
ProtoLong == ProtoText.long5
ProtoCorrupt == ProtoText.corrupt

\* the records a message of the format is made of
RecordsOf(fmt) ==
    IF fmt = "Json" THEN {<<b>> : b \in JsonBytes}
    ELSE IF fmt = "JsonConfluent"
    THEN {Envelope \o <<b>> : b \in {Doc5, DocBadA}} \cup {ShortRecord}
    ELSE IF IsProtobuf(fmt) THEN {<<ProtoLong>>, <<ProtoCorrupt>>}
    ELSE IF fmt = "Parquet" THEN {<<Doc5>>}
    ELSE {<<b>> : b \in RawBytes}

\* The record lists pushed: without framing one record; with newline
\* framing up to MaxRecs records.
RecordLists(fmt, fr) ==
    IF fr.some
    THEN UNION {[1..n -> RecordsOf(fmt)] : n \in 1..MaxRecs}
    ELSE {<<r>> : r \in RecordsOf(fmt)}

\* the payload that carries the records: joined by newlines, with or
\* without a final newline
Payload(recs, trailing) == JoinNL(recs) \o (IF trailing THEN <<NL>> ELSE <<>>)

(* --------------------------- conversions ------------------------------ *)
\* arroyo_types::to_nanos(time) as i64: nanoseconds since the epoch (the
\* instants of the model are far below the 64-bit range)
to_nanos(time) == time.secs * 1000000000 + time.nanos

\* String::from_utf8_lossy on the bytes of the model: an ASCII byte is its
\* own character, any other byte becomes U+FFFD
from_utf8_lossy(msg) == [i \in 1..Len(msg) |-> IF msg[i] < 128 THEN msg[i] ELSE 65533]

(* ---------------------- incremental JSON decoder ---------------------- *)
\* arrow_json Decoder as the deserializer uses it.  decode(record) either
\* rejects the record (not JSON) or accumulates one row; a row is kept as
\* the document, ok telling whether it has the column's type.
IsJson_Typed(rec) == rec = <<Doc5>>
IsJson(rec) == Len(rec) = 1 /\ rec[1] \in {Doc5, DocStr}
JsonRow(rec) == [ok |-> rec[1] # DocStr, value |-> IF rec[1] = DocStr THEN 0 ELSE rec[1] - 48]

\* the decoder's output columns for rows, in schema_without_timestamp order:
\* the data column from the documents, null for columns they do not carry
DecoderColumns(rows) ==
    [c \in 1..Len(schema_without_timestamp) |->
        IF schema_without_timestamp[c] = "value"
        THEN [i \in 1..Len(rows) |-> rows[i].value]
        ELSE [i \in 1..Len(rows) |-> Null]]

\* kernels::filter::filter(values, mask): the values whose mask bit is set
RECURSIVE FilterFrom(_, _, _)
FilterFrom(values, mask, i) ==
    IF i > Len(mask) THEN <<>>
    ELSE (IF mask[i] THEN <<values[i]>> ELSE <<>>) \o FilterFrom(values, mask, i + 1)
filter(values, mask) == FilterFrom(values, mask, 1)


(* -------------------------- ArrowDeserializer ------------------------- *)
\* The mutable part of an ArrowDeserializer together with the caller's
\* builders (the buffer argument), as one record:
\*   json_rows              rows accumulated in json_decoder.0
\*   timestamp_builder      json_decoder.1
\*   kafka_metadata_builder Option<(offset, partition, topic builders)>
\*   buffered_count
\*   buffered_since         "now" when the Instant was taken by the call just
\*                          made (or by the constructor, no call made since),
\*                          "earlier" when it is older
\*   buffer                 the caller's builders, one per schema column
\*   panicked               the task has panicked inside a call
NoKafkaBuilder == [some |-> FALSE, offset |-> <<>>, partition |-> <<>>, topic |-> <<>>]

NewDeserializer ==
    [json_rows |-> <<>>,
     timestamp_builder |-> <<>>,
     kafka_metadata_builder |-> NoKafkaBuilder,
     buffered_count |-> 0,
     buffered_since |-> "now",
     buffer |-> [c \in 1..Len(SchemaColumns) |-> <<>>],
     panicked |-> FALSE]

\* builder[idx].append_value(v) on the caller's builders
AppendAt(buffer, idx, v) == [buffer EXCEPT ![idx + 1] = Append(@, v)]

\* add_timestamp(buffer, idx, timestamp)
add_timestamp_Seconds(buffer, idx, timestamp) == AppendAt(buffer, idx, timestamp.secs)
add_timestamp(buffer, idx, timestamp) == AppendAt(buffer, idx, to_nanos(timestamp))

\* add_kafka_metadata(buffer, schema, topic, partition, offset)
add_kafka_metadata(buffer, topic, partition, offset) ==
    LET topic_idx == column_with_name("topic")
        partition_idx == column_with_name("partition")
        offset_idx == column_with_name("offset")
    IN AppendAt(AppendAt(AppendAt(buffer, topic_idx, topic),
                         partition_idx, partition),
                offset_idx, offset)

\* deserialize_raw_string / deserialize_raw_bytes
deserialize_raw_string(buffer, msg) ==
    AppendAt(buffer, column_with_name("value"), from_utf8_lossy(msg))
deserialize_raw_bytes(buffer, msg) ==
    AppendAt(buffer, column_with_name("value"), msg)

\* SourceError::bad_data(..) for a record
BadDataError(rec) == [kind |-> "BadData", record |-> rec]

\* kafka_metadata_builder.get_or_insert_with(..)
get_or_insert(kmb) == [kmb EXCEPT !.some = TRUE]

\* the Json arm of deserialize_single (structured documents): &msg[5..]
\* when the format has the Confluent envelope, a panic when the record is
\* shorter
deserialize_json_CallerMetadata(confluent, d, record, timestamp, kafka_metadata) ==
    IF confluent /\ Len(record) < 5
    THEN [d |-> [d EXCEPT !.panicked = TRUE], err |-> <<>>]
    ELSE
    LET msg == IF confluent THEN Slice(record, 5, Len(record)) ELSE record
    IN IF ~IsJson(msg)
       THEN [d |-> d, err |-> <<BadDataError(record)>>]
       ELSE [d |-> [d EXCEPT
                      !.json_rows = Append(@, JsonRow(msg)),
                      !.timestamp_builder = Append(@, to_nanos(timestamp)),
                      !.buffer =
                          IF kafka_metadata.enabled
                          THEN add_kafka_metadata(@, kafka_metadata.topic,
                                                  kafka_metadata.partition,
                                                  kafka_metadata.offset)
                          ELSE @,
                      !.buffered_count = @ + 1],
             err |-> <<>>]
deserialize_json(confluent, d, record, timestamp, kafka_metadata) ==
    IF confluent /\ Len(record) < 5
    THEN [d |-> [d EXCEPT !.panicked = TRUE], err |-> <<>>]
    ELSE
    LET msg == IF confluent THEN Slice(record, 5, Len(record)) ELSE record
        kmb == IF kafka_metadata.enabled
               THEN get_or_insert(d.kafka_metadata_builder)
               ELSE d.kafka_metadata_builder
    IN IF ~IsJson(msg)
       THEN [d |-> [d EXCEPT !.kafka_metadata_builder = kmb],
             err |-> <<BadDataError(record)>>]
       ELSE [d |-> [d EXCEPT
                      !.json_rows = Append(@, JsonRow(msg)),
                      !.timestamp_builder = Append(@, to_nanos(timestamp)),
                      !.kafka_metadata_builder =
                          IF kafka_metadata.enabled /\ kmb.some
                          THEN [some |-> TRUE,
                                offset |-> Append(kmb.offset, kafka_metadata.offset),
                                partition |-> Append(kmb.partition, kafka_metadata.partition),
                                topic |-> Append(kmb.topic, kafka_metadata.topic)]
                          ELSE kmb,
                      !.buffered_count = @ + 1],
             err |-> <<>>]

\* the RawString / unstructured Json arm and the RawBytes arm of
\* deserialize_single
deserialize_raw(fmt, d, msg, timestamp, kafka_metadata) ==
    LET b1 == IF IsRawString(fmt)
              THEN deserialize_raw_string(d.buffer, msg)
              ELSE deserialize_raw_bytes(d.buffer, msg)
        b2 == add_timestamp(b1, timestamp_index, timestamp)
        b3 == IF kafka_metadata.enabled
              THEN add_kafka_metadata(b2, kafka_metadata.topic,
                                      kafka_metadata.partition, kafka_metadata.offset)
              ELSE b2
    IN [d |-> [d EXCEPT !.buffer = b3], err |-> <<>>]

\* decode_into_json: the JSON text into the caller's value column, the
\* arrival time into its timestamp column
decode_into_json_Buffered(d, value, timestamp) ==
    [d EXCEPT !.json_rows = Append(@, JsonRow(value)),
              !.timestamp_builder = Append(@, to_nanos(timestamp)),
              !.buffered_count = @ + 1]
decode_into_json(d, value, timestamp) ==
    LET b1 == AppendAt(d.buffer, column_with_name("value"), value)
        b2 == add_timestamp(b1, timestamp_index, timestamp)
    IN [d EXCEPT !.buffer = b2, !.buffered_count = @ + 1]

\* proto::de::deserialize_proto(pool, proto, msg): the message as a JSON
\* value, or an error for bytes that are not a message
deserialize_proto(msg) ==
    IF msg = <<ProtoLong>> THEN [ok |-> TRUE, json |-> <<Doc5>>]
    ELSE [ok |-> FALSE, json |-> <<>>]

\* the Protobuf arm of deserialize_single
deserialize_protobuf(fmt, d, msg, timestamp, kafka_metadata) ==
    LET p == deserialize_proto(msg)
    IN IF ~p.ok THEN [d |-> d, err |-> <<BadDataError(msg)>>]
       ELSE IF fmt = "ProtobufUnstructured"
       THEN [d |-> decode_into_json(d, p.json, timestamp), err |-> <<>>]
       ELSE [d |-> [d EXCEPT
                      !.json_rows = Append(@, JsonRow(p.json)),
                      !.timestamp_builder = Append(@, to_nanos(timestamp)),
                      !.buffer =
                          IF kafka_metadata.enabled
                          THEN add_kafka_metadata(@, kafka_metadata.topic,
                                                  kafka_metadata.partition,
                                                  kafka_metadata.offset)
                          ELSE @,
                      !.buffered_count = @ + 1],
             err |-> <<>>]

\* the Parquet arm of deserialize_single: todo!(..), a panic
deserialize_parquet_AsRawBytes(d, msg) ==
    [d |-> [d EXCEPT !.buffer = deserialize_raw_bytes(@, msg)], err |-> <<>>]
deserialize_parquet(d, msg) ==
    [d |-> [d EXCEPT !.panicked = TRUE], err |-> <<>>]

\* the Avro arm of deserialize_single: unreachable!(..), a panic
deserialize_single_avro(d) == [d |-> [d EXCEPT !.panicked = TRUE], err |-> <<>>]

\* deserialize_single: one framed record
deserialize_single(fmt, d, msg, timestamp, kafka_metadata) ==
    IF IsJsonFormat(fmt)
    THEN deserialize_json(fmt = "JsonConfluent", d, msg, timestamp, kafka_metadata)
    ELSE IF IsProtobuf(fmt)
    THEN deserialize_protobuf(fmt, d, msg, timestamp, kafka_metadata)
    ELSE IF fmt = "Parquet" THEN deserialize_parquet(d, msg)
    ELSE IF IsAvro(fmt) THEN deserialize_single_avro(d)
    ELSE deserialize_raw(fmt, d, msg, timestamp, kafka_metadata)

\* the map / filter_map / collect of deserialize_slice over the framed
\* records from position i on: every record is decoded, errors are kept; a
\* panic ends the call, nothing is returned
RECURSIVE DecodeRecords(_, _, _, _, _, _)
DecodeRecords_Reversed(fmt, d, recs, i, timestamp, kafka_metadata) ==
    IF i > Len(recs) THEN [d |-> d, errors |-> <<>>]
    ELSE LET r == deserialize_single(fmt, d, recs[Len(recs) - i + 1], timestamp,
                                     kafka_metadata)
             rest == DecodeRecords(fmt, r.d, recs, i + 1, timestamp, kafka_metadata)
         IN IF r.d.panicked THEN [d |-> r.d, errors |-> <<>>]
            ELSE [d |-> rest.d,
                  errors |-> IF rest.d.panicked THEN <<>> ELSE r.err \o rest.errors]
DecodeRecords(fmt, d, recs, i, timestamp, kafka_metadata) ==
    IF i > Len(recs) THEN [d |-> d, errors |-> <<>>]
    ELSE LET r == deserialize_single(fmt, d, recs[i], timestamp, kafka_metadata)
             rest == DecodeRecords(fmt, r.d, recs, i + 1, timestamp, kafka_metadata)
         IN IF r.d.panicked THEN [d |-> r.d, errors |-> <<>>]
            ELSE [d |-> rest.d,
                  errors |-> IF rest.d.panicked THEN <<>> ELSE r.err \o rest.errors]

\* the match of deserialize_slice on the format: the Avro batch path, or
\* the framing iterator and deserialize_single
deserialize_slice_arm_AlwaysFramed(fmt) == "framed"
deserialize_slice_arm(fmt) == IF IsAvro(fmt) THEN "avro" ELSE "framed"

\* deserialize_slice for the formats that are framed
deserialize_slice(fmt, fr, d, msg, timestamp, kafka_metadata) ==
    DecodeRecords(fmt, d, FrameAll(fr, msg), 1, timestamp, kafka_metadata)


(* ------------------------------ Avro path ----------------------------- *)
\* An Avro message names a schema and carries records; a record is written
\* as one byte: a record whose value is the long 5, a record whose value
\* is a string, and bytes that do not decode under the schema.
AvroText == [long5 |-> 1, string |-> 2, corrupt |-> 3]
AvroLong == AvroText.long5
AvroString == AvroText.string
AvroCorrupt == AvroText.corrupt
AvroRecords == {AvroLong, AvroString, AvroCorrupt}
SchemaIds == {7, 8}
\* the schemas the resolver can have; the others never resolve
Registered == {7}

\* avro::de::avro_messages: the schema of the message is taken from the
\* cache or, when it is not there, from the resolver and then cached; an
\* unresolved schema fails the message; else the records are decoded one
\* by one, each to a value or to an error
\* (resolver_calls: how many times the resolver was invoked)
cache_miss(registry, id) == id \notin registry
avro_messages(registry, msg, resolves) ==
    IF ~cache_miss(registry, msg.schema_id)
    THEN [ok |-> TRUE, registry |-> registry, messages |-> msg.records,
          resolver_calls |-> 0]
    ELSE IF resolves
    THEN [ok |-> TRUE, registry |-> registry \cup {msg.schema_id},
          messages |-> msg.records, resolver_calls |-> 1]
    ELSE [ok |-> FALSE, registry |-> registry, messages |-> <<>>, resolver_calls |-> 1]

\* the deserializer while deserialize_slice_avro is suspended in
\* avro_messages(..).await on the resolver: nothing but the cache lookup has
\* run
avro_suspended_Counted(d) == [d EXCEPT !.buffered_count = @ + 1]
avro_suspended(d) == d

\* avro::de::avro_to_json(value).to_string(): the JSON text of a decoded
\* record
avro_to_json(record) == IF record = AvroLong THEN <<Doc5>> ELSE <<DocStr>>

\* the closure of deserialize_slice_avro on one record
deserialize_avro_record(fmt, d, record, timestamp) ==
    IF record = AvroCorrupt
    THEN [d |-> d, err |-> <<BadDataError(<<record>>)>>]
    ELSE IF fmt = "AvroUnstructured"
    THEN [d |-> decode_into_json(d, avro_to_json(record), timestamp), err |-> <<>>]
    ELSE LET json == avro_to_json(record)
         IN IF ~IsJson(json)
            THEN [d |-> d, err |-> <<BadDataError(<<record>>)>>]
            ELSE [d |-> [d EXCEPT !.json_rows = Append(@, JsonRow(json)),
                                  !.buffered_count = @ + 1,
                                  !.timestamp_builder = Append(@, to_nanos(timestamp))],
                  err |-> <<>>]

\* the map / filter_map / collect of deserialize_slice_avro
RECURSIVE DecodeAvroRecords(_, _, _, _, _)
DecodeAvroRecords_StopAtError(fmt, d, records, i, timestamp) ==
    IF i > Len(records) THEN [d |-> d, errors |-> <<>>]
    ELSE LET r == deserialize_avro_record(fmt, d, records[i], timestamp)
         IN IF r.err # <<>> THEN [d |-> r.d, errors |-> r.err]
            ELSE DecodeAvroRecords(fmt, r.d, records, i + 1, timestamp)
DecodeAvroRecords(fmt, d, records, i, timestamp) ==
    IF i > Len(records) THEN [d |-> d, errors |-> <<>>]
    ELSE LET r == deserialize_avro_record(fmt, d, records[i], timestamp)
             rest == DecodeAvroRecords(fmt, r.d, records, i + 1, timestamp)
         IN [d |-> rest.d, errors |-> r.err \o rest.errors]

\* deserialize_slice_avro: one error for the message when its schema does
\* not resolve, else every record decoded
deserialize_slice_avro_DecodeUnresolved(fmt, d, registry, msg, timestamp, resolves) ==
    LET m == avro_messages(registry, msg, resolves)
        r == DecodeAvroRecords(fmt, d, msg.records, 1, timestamp)
    IN IF ~m.ok
       THEN [d |-> r.d, registry |-> m.registry,
             errors |-> <<[kind |-> "Resolution", record |-> <<>>]>>,
             resolver_calls |-> m.resolver_calls]
       ELSE [d |-> r.d, registry |-> m.registry, errors |-> r.errors,
             resolver_calls |-> m.resolver_calls]
deserialize_slice_avro_ResetsCache(fmt, d, registry, msg, timestamp, resolves) ==
    LET m == avro_messages(registry, msg, resolves)
    IN IF ~m.ok
       THEN [d |-> d, registry |-> {},
             errors |-> <<[kind |-> "Resolution", record |-> <<>>]>>,
             resolver_calls |-> m.resolver_calls]
       ELSE LET r == DecodeAvroRecords(fmt, d, m.messages, 1, timestamp)
            IN [d |-> r.d, registry |-> m.registry, errors |-> r.errors,
                resolver_calls |-> m.resolver_calls]
deserialize_slice_avro_Retries(fmt, d, registry, msg, timestamp, resolves) ==
    LET m == avro_messages(registry, msg, resolves)
        again == avro_messages(m.registry, msg, resolves)
    IN IF ~m.ok
       THEN [d |-> d, registry |-> again.registry,
             errors |-> <<[kind |-> "Resolution", record |-> <<>>]>>,
             resolver_calls |-> m.resolver_calls + again.resolver_calls]
       ELSE LET r == DecodeAvroRecords(fmt, d, m.messages, 1, timestamp)
            IN [d |-> r.d, registry |-> m.registry, errors |-> r.errors,
                resolver_calls |-> m.resolver_calls]
deserialize_slice_avro(fmt, d, registry, msg, timestamp, resolves) ==
    LET m == avro_messages(registry, msg, resolves)
    IN IF ~m.ok
       THEN [d |-> d, registry |-> m.registry,
             errors |-> <<[kind |-> "Resolution", record |-> <<>>]>>,
             resolver_calls |-> m.resolver_calls]
       ELSE LET r == DecodeAvroRecords(fmt, d, m.messages, 1, timestamp)
            IN [d |-> r.d, registry |-> m.registry, errors |-> r.errors,
                resolver_calls |-> m.resolver_calls]

(* ----------------------------- flush_buffer --------------------------- *)
\* Decoder::flush(): Ok(None) without rows, Err when a row does not have
\* the schema's types, else the columns of all rows
AllConform(rows) == \A i \in 1..Len(rows) : rows[i].ok
flush(rows) ==
    IF rows = <<>> THEN [kind |-> "None", columns |-> <<>>]
    ELSE IF ~AllConform(rows) THEN [kind |-> "Err", columns |-> <<>>]
    ELSE [kind |-> "Ok", columns |-> DecoderColumns(rows)]

\* the exclusion mask of flush_with_bad_data over the row positions
BadDataMask(rows) == [i \in 1..Len(rows) |-> rows[i].ok]

\* Decoder::flush_with_bad_data(): Ok(None) without rows, else the columns
\* of the rows that conform and the mask
flush_with_bad_data(rows) ==
    IF rows = <<>> THEN [kind |-> "None", columns |-> <<>>, mask |-> <<>>]
    ELSE [kind |-> "Ok",
          columns |-> DecoderColumns(filter(rows, BadDataMask(rows))),
          mask |-> BadDataMask(rows)]

\* RecordBatch::try_new(schema, columns).unwrap(): one column per schema
\* field, all of one length, or a panic
try_new(columns) ==
    IF Len(columns) = Len(SchemaColumns)
       /\ \A c \in 1..Len(columns) : Len(columns[c]) = Len(columns[1])
    THEN [kind |-> "Batch", columns |-> columns]
    ELSE [kind |-> "Panic", columns |-> <<>>]

\* columns.remove(idx); columns.insert(idx, finished builder)
ReplaceColumn_Append(columns, idx, array) == Append(VecRemove(columns, idx), array)
ReplaceColumn(columns, idx, array) == VecInsert(VecRemove(columns, idx), idx, array)

\* the closure of the Fail branch: stitch the side channels into the
\* decoder's columns
StitchFail(columns, timestamp, kmb) ==
    LET c1 == VecInsert(columns, timestamp_index, timestamp)
    IN IF kmb.some
       THEN LET c2 == ReplaceColumn(c1, column_with_name("topic"), kmb.topic)
                c3 == ReplaceColumn(c2, column_with_name("partition"), kmb.partition)
            IN ReplaceColumn(c3, column_with_name("offset"), kmb.offset)
       ELSE c1

\* the closure of the Drop branch
StitchDrop_Unfiltered(columns, timestamp, mask) ==
    VecInsert(columns, timestamp_index, timestamp)
StitchDrop(columns, timestamp, mask) ==
    VecInsert(columns, timestamp_index, filter(timestamp, mask))

\* the builders of kafka_metadata_builder after finish()
FinishKafka(kmb) == [kmb EXCEPT !.offset = <<>>, !.partition = <<>>, !.topic = <<>>]

\* flush_buffer under BadData::Fail.  keeps: whether the decoder still holds
\* its rows after flush() returned an error (the decoder is a library; both
\* are outcomes the deserializer can meet).
flush_buffer_fail_SwallowError(d, keeps) ==
    LET f == flush(d.json_rows)
        d0 == [d EXCEPT !.buffered_since = "now", !.buffered_count = 0]
    IN IF f.kind \in {"None", "Err"}
       THEN [d |-> d0, result |-> [kind |-> "None", columns |-> <<>>]]
       ELSE [d |-> [d0 EXCEPT !.json_rows = <<>>,
                              !.timestamp_builder = <<>>,
                              !.kafka_metadata_builder = FinishKafka(@)],
             result |-> try_new(StitchFail(f.columns, d.timestamp_builder,
                                           d.kafka_metadata_builder))]
flush_buffer_fail_KeepsRows(d, keeps) ==
    LET f == flush(d.json_rows)
        d0 == [d EXCEPT !.buffered_since = "now", !.buffered_count = 0]
    IN IF f.kind = "None" THEN [d |-> d0, result |-> [kind |-> "None", columns |-> <<>>]]
       ELSE IF f.kind = "Err"
       THEN [d |-> [d0 EXCEPT !.json_rows = IF keeps THEN @ ELSE <<>>],
             result |-> [kind |-> "Err", columns |-> <<>>]]
       ELSE [d |-> [d0 EXCEPT !.timestamp_builder = <<>>,
                              !.kafka_metadata_builder = FinishKafka(@)],
             result |-> try_new(StitchFail(f.columns, d.timestamp_builder,
                                           d.kafka_metadata_builder))]
flush_buffer_fail(d, keeps) ==
    LET f == flush(d.json_rows)
        d0 == [d EXCEPT !.buffered_since = "now", !.buffered_count = 0]
    IN IF f.kind = "None" THEN [d |-> d0, result |-> [kind |-> "None", columns |-> <<>>]]
       ELSE IF f.kind = "Err"
       THEN [d |-> [d0 EXCEPT !.json_rows = IF keeps THEN @ ELSE <<>>],
             result |-> [kind |-> "Err", columns |-> <<>>]]
       ELSE [d |-> [d0 EXCEPT !.json_rows = <<>>,
                              !.timestamp_builder = <<>>,
                              !.kafka_metadata_builder = FinishKafka(@)],
             result |-> try_new(StitchFail(f.columns, d.timestamp_builder,
                                           d.kafka_metadata_builder))]

\* flush_buffer under BadData::Drop
flush_buffer_drop_KeepsRows(d) ==
    LET f == flush_with_bad_data(d.json_rows)
        d0 == [d EXCEPT !.buffered_since = "now", !.buffered_count = 0]
    IN IF f.kind = "None" THEN [d |-> d0, result |-> [kind |-> "None", columns |-> <<>>]]
       ELSE [d |-> d0,
             result |-> try_new(StitchDrop(f.columns, d.timestamp_builder, f.mask))]
flush_buffer_drop(d) ==
    LET f == flush_with_bad_data(d.json_rows)
        d0 == [d EXCEPT !.buffered_since = "now", !.buffered_count = 0]
    IN IF f.kind = "None" THEN [d |-> d0, result |-> [kind |-> "None", columns |-> <<>>]]
       ELSE [d |-> [d0 EXCEPT !.json_rows = <<>>, !.timestamp_builder = <<>>],
             result |-> IF Len(f.mask) > Len(d.timestamp_builder)
                        THEN [kind |-> "Panic", columns |-> <<>>]
                        ELSE try_new(StitchDrop(f.columns, d.timestamp_builder, f.mask))]

\* flush_buffer under the policy of the deserializer
flush_buffer_policy(policy, d, keeps) ==
    IF policy = "Fail" THEN flush_buffer_fail(d, keeps) ELSE flush_buffer_drop(d)

\* flush_buffer: None at once when there is no json_decoder; the unwrap of
\* a failed RecordBatch::try_new is a panic
flush_buffer(fmt, policy, d, keeps) ==
    IF ~HasJsonDecoder(fmt) THEN [d |-> d, result |-> [kind |-> "None", columns |-> <<>>]]
    ELSE LET r == flush_buffer_policy(policy, d, keeps)
         IN [d |-> [r.d EXCEPT !.panicked = (r.result.kind = "Panic")],
             result |-> r.result]

(* ----------------------------- should_flush -------------------------- *)
\* the configured thresholds of the buffering: rows and elapsed time
BatchSize == 2
BatchLinger == 2

\* crate::should_flush(size, time): the count or the time elapsed since the
\* instant has reached its threshold
should_flush(size, elapsed) == size >= BatchSize \/ elapsed >= BatchLinger

(* ------------------------------- state -------------------------------- *)
VARIABLES
    \* ArrowDeserializer: configuration
    format, framing, bad_data,
    \* ArrowDeserializer: json_decoder, kafka_metadata_builder, buffered_count
    json_rows, timestamp_builder, kafka_metadata_builder, buffered_count,
    buffered_since,
    \* the task that owns the deserializer has panicked
    panicked,
    \* ArrowDeserializer: schema_registry, the identifiers with a cached schema
    schema_registry,
    \* the schema identifier of the message of a deserialize_slice call that
    \* is suspended on the resolver (Null: no call is suspended), and the
    \* identifiers that the resolver has resolved
    pending, resolved,
    \* the caller's builders handed to deserialize_slice
    buffer,
    \* the call just made and what it returned
    last_op, errors, flush_result,
    \* history: the input of the deserialize_slice call just made, the
    \* documents accepted since the last flush_buffer call, the documents of
    \* the cycle the flush_buffer call just made ended, and whether that call
    \* directly followed a flush_buffer that returned an error
    last_call, cycle, flushed, after_err,
    \* history: the flush_buffer call just made directly followed a
    \* flush_buffer that returned a batch
    after_batch,
    \* a FramingIterator driven on its own
    fi_framing, fi_buf, fi_offset, fi_out, fi_done,
    \* history: the rows decoded since the last flush_buffer call; the time
    \* elapsed since the instant of buffered_since and since the last
    \* flush_buffer call (or the construction); what the should_flush call
    \* just made returned ("NotCalled": the last call was another one)
    decoded_rows, since_elapsed, flush_elapsed, polled,
    \* history, when it is kept: the rows pushed into the incremental decoder,
    \* the rows returned in batches and the rows excluded as bad data by a
    \* Drop flush, since the construction
    ledger

des_vars == <<format, framing, bad_data, json_rows, timestamp_builder,
              kafka_metadata_builder, buffered_count, buffered_since, panicked,
              schema_registry, pending, resolved,
              buffer,
              last_op, errors, flush_result, last_call, cycle, flushed, after_err,
              after_batch>>
fi_vars == <<fi_framing, fi_buf, fi_offset, fi_out, fi_done>>
poll_vars == <<decoded_rows, since_elapsed, flush_elapsed, polled>>
vars == <<des_vars, fi_vars, poll_vars, ledger>>

\* the deserializer and the caller's builders as the record the operators
\* take, at a call: the instant of buffered_since is then in the past
Des ==
    [json_rows |-> json_rows,
     timestamp_builder |-> timestamp_builder,
     kafka_metadata_builder |-> kafka_metadata_builder,
     buffered_count |-> buffered_count,
     buffered_since |-> "earlier",
     buffer |-> buffer,
     panicked |-> panicked]

SetDes(d) ==
    /\ json_rows' = d.json_rows
    /\ timestamp_builder' = d.timestamp_builder
    /\ kafka_metadata_builder' = d.kafka_metadata_builder
    /\ buffered_count' = d.buffered_count
    /\ buffered_since' = d.buffered_since
    /\ buffer' = d.buffer
    /\ panicked' = d.panicked

NoResult == [kind |-> "NotCalled", columns |-> <<>>]
NoCall == [recs |-> <<>>, timestamp |-> [secs |-> 0, nanos |-> 0],
           kafka_metadata |-> NoMetadata, schema_id |-> Null, resolver_calls |-> 0,
           arm |-> "none"]

\* ArrowDeserializer::new / with_schema_resolver
DesInit ==
    /\ format \in Formats
    /\ framing \in {NoFraming, Newline(FALSE, 0)}
    /\ bad_data \in BadDataPolicies
    /\ json_rows = NewDeserializer.json_rows
    /\ timestamp_builder = NewDeserializer.timestamp_builder
    /\ kafka_metadata_builder = NewDeserializer.kafka_metadata_builder
    /\ buffered_count = NewDeserializer.buffered_count
    /\ buffered_since = NewDeserializer.buffered_since
    /\ panicked = NewDeserializer.panicked
    /\ schema_registry = {}
    /\ pending = Null
    /\ resolved = {}
    /\ buffer = NewDeserializer.buffer
    /\ last_op = "new"
    /\ errors = <<>>
    /\ flush_result = NoResult
    /\ last_call = NoCall
    /\ cycle = <<>>
    /\ flushed = <<>>
    /\ after_err = FALSE
    /\ after_batch = FALSE

\* FramingIterator::new
FramingIdle ==
    /\ fi_framing = NoFraming
    /\ fi_buf = <<>>
    /\ fi_offset = 0
    /\ fi_out = <<>>
    /\ fi_done = FALSE

\* nothing decoded, no time elapsed, should_flush not called
PollIdle ==
    /\ decoded_rows = 0
    /\ since_elapsed = 0
    /\ flush_elapsed = 0
    /\ polled = "NotCalled"

\* the ledger of rows: not kept, and as it starts when it is kept
NoLedger == [kept |-> FALSE, pushed |-> 0, returned |-> 0, excluded |-> 0]
NewLedger == [kept |-> TRUE, pushed |-> 0, returned |-> 0, excluded |-> 0]

Init == DesInit /\ FramingIdle /\ PollIdle /\ ledger = NoLedger

\* the task has panicked: nothing runs after it
Panicked == panicked

\* a deserialize_slice call is suspended: it borrows the deserializer
\* mutably, nothing else runs on it
Suspended == pending # Null

\* what a record of a call is to the claims: too short for its envelope,
\* the document inside the envelope, not JSON
TooShort(rec) == format = "JsonConfluent" /\ Len(rec) < Len(Envelope)
Document(rec) ==
    IF format = "JsonConfluent" THEN SubSeq(rec, Len(Envelope) + 1, Len(rec))
    ELSE IF IsProtobuf(format) THEN deserialize_proto(rec).json
    ELSE rec
NotJson(rec) == ~TooShort(rec) /\ Document(rec) \in {<<DocBadA>>, <<DocBadB>>}
\* a Protobuf record that is not a message
NotProto(rec) == IsProtobuf(format) /\ ~deserialize_proto(rec).ok

\* the records of a call up to the first that is too short for its envelope
\* (for Parquet: up to the first record)
Reached(recs) ==
    LET short == {i \in 1..Len(recs) : TooShort(recs[i]) \/ format = "Parquet"}
    IN IF short = {} THEN recs
       ELSE SubSeq(recs, 1, (CHOOSE i \in short : \A j \in short : i <= j) - 1)

\* the documents of a call that the incremental decoder accepts, with the
\* call's timestamp and metadata
Accepted(call) ==
    LET IsDoc(rec) == ~NotJson(rec) /\ ~NotProto(rec)
        docs == SelectSeq(Reached(call.recs), IsDoc)
    IN [i \in 1..Len(docs) |->
           [rec |-> Document(docs[i]), timestamp |-> call.timestamp,
            kafka_metadata |-> call.kafka_metadata]]

\* deserialize_slice(buffer, msg, timestamp, kafka_metadata)
DeserializeSlice ==
    /\ ~Panicked /\ ~Suspended
    /\ deserialize_slice_arm(format) = "framed"
    /\ \E recs \in RecordLists(format, framing), trailing \in BOOLEAN,
          arrival \in Arrivals :
        LET call == [recs |-> recs, timestamp |-> arrival[1],
                     kafka_metadata |-> arrival[2], schema_id |-> Null,
                     resolver_calls |-> 0, arm |-> "framed"]
            r == deserialize_slice(format, framing, Des, Payload(recs, trailing),
                                   arrival[1], arrival[2])
        IN \* a final newline is pushed behind single records
           /\ trailing => (framing.some /\ Len(recs) = 1)
           /\ Len(json_rows) + Len(recs) <= MaxStaged
           /\ Len(timestamp_builder) + Len(recs) <= MaxStaged
           /\ Len(kafka_metadata_builder.offset) + Len(recs) <= MaxStaged
           /\ \A c \in 1..Len(buffer) : Len(buffer[c]) + Len(recs) <= MaxStaged
           /\ buffered_count + Len(recs) <= MaxStaged
           /\ decoded_rows + Len(recs) <= MaxStaged
           /\ SetDes(r.d)
           /\ errors' = r.errors
           /\ last_call' = call
           /\ cycle' = IF UsesDecoder(format) THEN cycle \o Accepted(call) ELSE cycle
           /\ decoded_rows' = decoded_rows + Len(Accepted(call))
           /\ ledger.kept => ledger.pushed + Len(recs) <= MaxPushed
           /\ ledger' = IF ledger.kept
                         THEN [ledger EXCEPT !.pushed = @ + Len(Accepted(call))]
                         ELSE ledger
    /\ last_op' = "deserialize_slice"
    /\ flush_result' = NoResult
    /\ flushed' = <<>>
    /\ after_err' = FALSE
    /\ after_batch' = FALSE
    /\ polled' = "NotCalled"
    /\ UNCHANGED <<since_elapsed, flush_elapsed>>
    /\ UNCHANGED <<format, framing, bad_data, schema_registry, pending, resolved,
                   fi_vars>>

\* the records of an Avro call that decode, as the documents they become
AcceptedAvro(call) ==
    LET Decodes(rec) == rec # <<AvroCorrupt>>
        recs == SelectSeq(call.recs, Decodes)
    IN [i \in 1..Len(recs) |->
           [rec |-> IF recs[i] = <<AvroLong>> THEN <<Doc5>> ELSE <<DocStr>>,
            timestamp |-> call.timestamp,
            kafka_metadata |-> call.kafka_metadata]]

\* deserialize_slice(buffer, msg, timestamp, kafka_metadata) for Format::Avro:
\* deserialize_slice_avro, the schema resolving or not when it is not cached
DeserializeSliceAvro ==
    /\ ~Panicked
    /\ IsAvro(format) /\ deserialize_slice_arm(format) = "avro"
    /\ pending' = Null
    /\ \E id \in SchemaIds, records \in UNION {[1..n -> AvroRecords] : n \in 1..MaxRecs},
          timestamp \in Timestamps, resolves \in BOOLEAN :
        LET r == deserialize_slice_avro(format, Des, schema_registry,
                                        [schema_id |-> id, records |-> records],
                                        timestamp, resolves)
            call == [recs |-> [i \in 1..Len(records) |-> <<records[i]>>],
                     timestamp |-> timestamp,
                     kafka_metadata |-> NoMetadata, schema_id |-> id,
                     resolver_calls |-> r.resolver_calls, arm |-> "avro"]
        IN \* the call runs to its end: at once when the schema is cached,
           \* else from its suspension, the resolver resolving only a schema
           \* it has
           /\ IF Suspended THEN id = pending ELSE ~cache_miss(schema_registry, id)
           /\ ~cache_miss(schema_registry, id) => resolves
           /\ resolves => id \in Registered
           /\ Len(json_rows) + Len(records) <= MaxStaged
           /\ Len(timestamp_builder) + Len(records) <= MaxStaged
           /\ Len(buffer[1]) + Len(records) <= MaxStaged
           /\ buffered_count + Len(records) <= MaxStaged
           /\ decoded_rows + Len(records) <= MaxStaged
           /\ SetDes(r.d)
           /\ schema_registry' = r.registry
           /\ resolved' = IF r.resolver_calls > 0 /\ r.errors # <<[kind |-> "Resolution", record |-> <<>>]>>
                           THEN resolved \cup {id} ELSE resolved
           /\ errors' = r.errors
           /\ last_call' = call
           /\ cycle' = IF format = "Avro" /\ r.errors # <<[kind |-> "Resolution", record |-> <<>>]>>
                       THEN cycle \o AcceptedAvro(call) ELSE cycle
           /\ decoded_rows' = IF r.errors # <<[kind |-> "Resolution", record |-> <<>>]>>
                               THEN decoded_rows + Len(AcceptedAvro(call))
                               ELSE decoded_rows
    /\ last_op' = "deserialize_slice"
    /\ flush_result' = NoResult
    /\ flushed' = <<>>
    /\ after_err' = FALSE
    /\ after_batch' = FALSE
    /\ polled' = "NotCalled"
    /\ UNCHANGED <<since_elapsed, flush_elapsed, ledger>>
    /\ UNCHANGED <<format, framing, bad_data, fi_vars>>

\* deserialize_slice for Format::Avro on a message whose schema is not
\* cached, up to avro_messages(..).await on the resolver
AvroSuspend ==
    /\ ~Panicked /\ ~Suspended
    /\ IsAvro(format) /\ deserialize_slice_arm(format) = "avro"
    /\ \E id \in SchemaIds :
        /\ cache_miss(schema_registry, id)
        /\ pending' = id
    /\ SetDes(avro_suspended(Des))
    /\ last_op' = "suspended"
    /\ errors' = <<>>
    /\ last_call' = NoCall
    /\ flush_result' = NoResult
    /\ flushed' = <<>>
    /\ after_err' = FALSE
    /\ after_batch' = FALSE
    /\ polled' = "NotCalled"
    /\ UNCHANGED <<format, framing, bad_data, schema_registry, resolved, cycle,
                   fi_vars, decoded_rows, since_elapsed, flush_elapsed, ledger>>

\* the caller drops the future of the suspended call
AvroAbandon ==
    /\ ~Panicked /\ Suspended
    /\ pending' = Null
    /\ last_op' = "abandoned"
    /\ UNCHANGED <<format, framing, bad_data, json_rows, timestamp_builder,
                   kafka_metadata_builder, buffered_count, buffered_since, panicked,
                   schema_registry, resolved, buffer, errors, flush_result,
                   last_call, cycle, flushed, after_err, after_batch, fi_vars,
                   decoded_rows,
                   since_elapsed, flush_elapsed, ledger>>
    /\ polled' = "NotCalled"

\* flush_buffer()
FlushBuffer ==
    /\ ~Panicked /\ ~Suspended
    /\ \E keeps \in BOOLEAN :
        LET r == flush_buffer(format, bad_data, Des, keeps)
        IN /\ SetDes(r.d)
           /\ flush_result' = r.result
           /\ since_elapsed' = IF r.d.buffered_since = "now" THEN 0 ELSE since_elapsed
           /\ ledger' =
                IF ledger.kept /\ r.result.kind = "Batch"
                THEN [ledger EXCEPT
                        !.returned = @ + Len(r.result.columns[column_with_name("value") + 1]),
                        !.excluded = @ + (IF bad_data = "Drop"
                                          THEN Len(SelectSeq(BadDataMask(json_rows),
                                                             LAMBDA bit : ~bit))
                                          ELSE 0)]
                ELSE ledger
    /\ flush_elapsed' = 0
    /\ decoded_rows' = 0
    /\ polled' = "NotCalled"
    /\ last_op' = "flush_buffer"
    /\ errors' = <<>>
    /\ last_call' = NoCall
    /\ flushed' = cycle
    /\ cycle' = <<>>
    /\ after_err' = (last_op = "flush_buffer" /\ flush_result.kind = "Err")
    /\ after_batch' = (last_op = "flush_buffer" /\ flush_result.kind = "Batch")
    /\ UNCHANGED <<format, framing, bad_data, schema_registry, pending, resolved,
                   fi_vars>>

\* the caller finishes its builders into a batch (as tests::test_raw_bytes)
FinishBuilders ==
    /\ ~Panicked /\ ~Suspended
    /\ \E c \in 1..Len(buffer) : buffer[c] # <<>>
    /\ buffer' = [c \in 1..Len(buffer) |-> <<>>]
    /\ buffered_since' = "earlier"
    /\ UNCHANGED panicked
    /\ last_op' = "finish_builders"
    /\ errors' = <<>>
    /\ last_call' = NoCall
    /\ flush_result' = NoResult
    /\ flushed' = <<>>
    /\ after_err' = FALSE
    /\ after_batch' = FALSE
    /\ UNCHANGED <<format, framing, bad_data, json_rows, timestamp_builder,
                   kafka_metadata_builder, buffered_count, schema_registry, pending,
                   resolved, cycle, fi_vars, decoded_rows, since_elapsed,
                   flush_elapsed, ledger>>
    /\ polled' = "NotCalled"

Next ==
    \/ DeserializeSlice
    \/ AvroSuspend
    \/ AvroAbandon
    \/ DeserializeSliceAvro
    \/ FlushBuffer
    \/ FinishBuilders

Spec == Init /\ [][Next]_vars


(* ---------------------- the deserializer polled ----------------------- *)
\* the formats of the deserializers polled: one that buffers in the
\* incremental decoder, two that write into the caller's builders
ClockFormats == {"Json", "RawString", "ProtobufUnstructured"}

ClockInit ==
    /\ Init
    /\ format \in ClockFormats
    /\ framing = NoFraming

\* time passes
Tick ==
    /\ since_elapsed < MaxElapsed
    /\ since_elapsed' = since_elapsed + 1
    /\ flush_elapsed' = flush_elapsed + 1
    /\ polled' = "NotCalled"
    /\ UNCHANGED <<des_vars, fi_vars, decoded_rows, ledger>>

\* should_flush()
ShouldFlush ==
    /\ ~Panicked /\ ~Suspended
    /\ polled' = IF should_flush(buffered_count, since_elapsed) THEN "true" ELSE "false"
    /\ UNCHANGED <<des_vars, fi_vars, decoded_rows, since_elapsed, flush_elapsed,
                   ledger>>

ClockNext ==
    \/ DeserializeSlice
    \/ FlushBuffer
    \/ FinishBuilders
    \/ Tick
    \/ ShouldFlush

ClockSpec == ClockInit /\ [][ClockNext]_vars


(* ------------------ the deserializer with a ledger -------------------- *)
\* a Json-family deserializer with newline framing (messages of one record
\* or more) whose rows are counted from the construction
LedgerInit ==
    /\ DesInit /\ FramingIdle /\ PollIdle
    /\ IsJsonFormat(format)
    /\ framing.some
    /\ ledger = NewLedger

LedgerNext ==
    \/ DeserializeSlice
    \/ FlushBuffer

LedgerSpec == LedgerInit /\ [][LedgerNext]_vars


(* ------------------- a FramingIterator on its own --------------------- *)
\* the byte strings framed: newlines and two other bytes
FramingBytes == {NL, 97, 98}
FramingInputs == UNION {[1..n -> FramingBytes] : n \in 0..MaxLen}
FramingPolicies ==
    {NoFraming, Newline(FALSE, 0)} \cup {Newline(TRUE, cap) : cap \in 0..MaxCap}

\* the deserializer is not used while the iterator is driven on its own
DesIdle ==
    /\ format = "RawBytes"
    /\ framing = NoFraming
    /\ bad_data = "Fail"
    /\ json_rows = NewDeserializer.json_rows
    /\ timestamp_builder = NewDeserializer.timestamp_builder
    /\ kafka_metadata_builder = NewDeserializer.kafka_metadata_builder
    /\ buffered_count = NewDeserializer.buffered_count
    /\ buffered_since = NewDeserializer.buffered_since
    /\ panicked = NewDeserializer.panicked
    /\ schema_registry = {}
    /\ pending = Null
    /\ resolved = {}
    /\ buffer = NewDeserializer.buffer
    /\ last_op = "new"
    /\ errors = <<>>
    /\ flush_result = NoResult
    /\ last_call = NoCall
    /\ cycle = <<>>
    /\ flushed = <<>>
    /\ after_err = FALSE
    /\ after_batch = FALSE

\* FramingIterator::new(framing, buf)
FramingInit ==
    /\ fi_framing \in FramingPolicies
    /\ fi_buf \in FramingInputs
    /\ fi_offset = 0
    /\ fi_out = <<>>
    /\ fi_done = FALSE
    /\ DesIdle
    /\ PollIdle
    /\ ledger = NoLedger

\* next() returns Some(record)
FramingYield ==
    LET n == FramingNext(fi_framing, fi_buf, fi_offset)
    IN /\ n.some
       /\ fi_offset' = n.offset
       /\ fi_out' = Append(fi_out, n.item)
       /\ UNCHANGED <<fi_framing, fi_buf, fi_done, des_vars, poll_vars, ledger>>

\* next() returns None
FramingEnd ==
    LET n == FramingNext(fi_framing, fi_buf, fi_offset)
    IN /\ ~n.some
       /\ fi_offset' = n.offset
       /\ fi_done' = TRUE
       /\ UNCHANGED <<fi_framing, fi_buf, fi_out, des_vars, poll_vars, ledger>>

FramingStep == FramingYield \/ FramingEnd

FramingSpec == FramingInit /\ [][FramingStep]_vars


(* ----------------------- claims on the framing ------------------------ *)
\* the newline-delimited segments of a byte string, split at its last
\* newline first
RECURSIVE Segments(_)
Segments(buf) ==
    LET nls == {i \in 1..Len(buf) : buf[i] = NL}
    IN IF nls = {} THEN <<buf>>
       ELSE LET last == CHOOSE i \in nls : \A j \in nls : j <= i
            IN Append(Segments(SubSeq(buf, 1, last - 1)),
                      SubSeq(buf, last + 1, Len(buf)))

\* the segments without the empty segment that follows a final newline
SegmentsOfLines(buf) ==
    IF buf # <<>> /\ buf[Len(buf)] = NL
    THEN SubSeq(Segments(buf), 1, Len(Segments(buf)) - 1)
    ELSE Segments(buf)

IsPrefix(a, b) == Len(a) <= Len(b) /\ a = SubSeq(b, 1, Len(a))

\* C8 as stated: without framing, every input yields exactly one record,
\* the whole input, and then the iterator ends.
C8_NoFramingYieldsInputOnce ==
    (fi_done /\ ~fi_framing.some) => fi_out = <<fi_buf>>

\* C8 amended: without framing, every non-empty input yields exactly one
\* record, the whole input, and then the iterator ends; the empty input
\* yields no record.
C8_NoFramingYieldsNonEmptyInputOnce ==
    ~fi_framing.some =>
        /\ fi_done => fi_out = (IF fi_buf = <<>> THEN <<>> ELSE <<fi_buf>>)
        /\ fi_out \in {<<>>, <<fi_buf>>}
        /\ fi_out # <<>> => fi_offset = Len(fi_buf)

C8_Witness ==
    /\ fi_done /\ ~fi_framing.some
    /\ Len(fi_buf) = 3 /\ fi_buf[2] = NL
    /\ fi_out = <<fi_buf>>

\* C9 as stated: with newline framing and no cap, the records yielded are in
\* order the newline-delimited segments of the input, except the empty
\* segment after a final newline.
C9_NewlineYieldsSegments ==
    (fi_done /\ fi_framing.some /\ ~fi_framing.capped) =>
        fi_out = SegmentsOfLines(fi_buf)

\* C9 amended: the same for every non-empty input (empty segments between
\* two newlines are yielded, the one after a final newline is not); the
\* empty input yields no record.
C9_NewlineYieldsSegmentsOfNonEmpty ==
    (fi_framing.some /\ ~fi_framing.capped) =>
        LET want == IF fi_buf = <<>> THEN <<>> ELSE SegmentsOfLines(fi_buf)
        IN /\ fi_done => fi_out = want
           /\ IsPrefix(fi_out, want)

C9_Witness ==
    /\ fi_done /\ fi_framing.some /\ ~fi_framing.capped
    /\ fi_buf = <<NL, NL, 98, NL>>
    /\ fi_out = <<(<<>>), <<>>, <<98>>>>

\* the records the same input yields with newline framing and no cap
Uncapped(buf) == FrameAll(Newline(FALSE, 0), buf)

\* C10: with newline framing and max_line_length = L, every record yielded
\* is at most L long and is a prefix of the segment at the same position
\* that the input yields with no cap, the whole segment when that is no
\* longer than L.
C10_CappedRecordsArePrefixes ==
    (fi_framing.some /\ fi_framing.capped) =>
        /\ Len(fi_out) <= Len(Uncapped(fi_buf))
        /\ \A i \in 1..Len(fi_out) :
            LET seg == Uncapped(fi_buf)[i]
            IN /\ Len(fi_out[i]) <= fi_framing.max_line_length
               /\ IsPrefix(fi_out[i], seg)
               /\ Len(seg) <= fi_framing.max_line_length => fi_out[i] = seg

C10_Witness ==
    /\ fi_done /\ fi_framing = Newline(TRUE, 1)
    /\ fi_buf = <<97, 98, NL, 98>>
    /\ fi_out = <<(<<97>>), <<98>>>>

\* the offset of a FramingIterator with newline framing and no cap after it
\* has yielded n records of buf
RECURSIVE UncappedOffset(_, _)
UncappedOffset(buf, n) ==
    IF n = 0 THEN 0
    ELSE FramingNext(Newline(FALSE, 0), buf, UncappedOffset(buf, n - 1)).offset

\* C11: with newline framing and a cap, the bytes of a segment beyond the
\* cap are discarded and never yielded later: the input yields as many
\* records as it does with no cap, the i-th record is the i-th of those
\* segments cut at the cap, and after every record the iterator stands
\* where the iterator with no cap stands.
C11_CapKeepsRecordCount ==
    (fi_framing.some /\ fi_framing.capped) =>
        /\ fi_done => Len(fi_out) = Len(Uncapped(fi_buf))
        /\ Len(fi_out) <= Len(Uncapped(fi_buf))
        /\ ~fi_done => fi_offset = UncappedOffset(fi_buf, Len(fi_out))
        /\ \A i \in 1..Len(fi_out) :
            LET seg == Uncapped(fi_buf)[i]
            IN fi_out[i] = SubSeq(seg, 1, Min(Len(seg), fi_framing.max_line_length))

C11_Witness ==
    /\ fi_done /\ fi_framing = Newline(TRUE, 1)
    /\ fi_buf = <<97, 98, 98, NL>>
    /\ fi_out = <<(<<97>>)>>


(* ------------------------ claims on flush_buffer ---------------------- *)
\* a pushed document conforms to the schema when its value is an integer
Conforms(e) == e.rec = <<Doc5>>
\* the integer a conforming document carries
ValueOf(e) == e.rec[1] - 48

\* the columns of a returned batch by name
Column(name) == flush_result.columns[column_with_name(name) + 1]

\* the documents of the ended cycle that conform, in push order
Survivors == SelectSeq(flushed, Conforms)

Flushed(policy) ==
    last_op = "flush_buffer" /\ HasJsonDecoder(format) /\ bad_data = policy

\* C1: under Drop, flush_buffer returns a batch of exactly the pushed rows
\* that conform to the schema, in push order, each with the arrival
\* timestamp of its message; the timestamp column is as long as the data
\* columns.
C1_DropKeepsConformingRows ==
    (Flushed("Drop") /\ IsJsonFormat(format) /\ flushed # <<>>) =>
        /\ flush_result.kind = "Batch"
        /\ Column("value") = [i \in 1..Len(Survivors) |-> ValueOf(Survivors[i])]
        /\ Column("_timestamp") =
               [i \in 1..Len(Survivors) |-> to_nanos(Survivors[i].timestamp)]

C1_Witness ==
    /\ Flushed("Drop") /\ format = "Json"
    /\ Len(flushed) = 2
    /\ ~Conforms(flushed[1]) /\ Conforms(flushed[2])
    /\ flushed[1].timestamp # flushed[2].timestamp
    /\ flush_result.kind = "Batch"
    /\ Column("value") = <<5>>
    /\ Column("_timestamp") = <<to_nanos(flushed[2].timestamp)>>

\* C2: under Fail, when a row buffered since the last flush does not conform
\* to the schema, flush_buffer returns an error and no batch.
C2_FailReturnsError ==
    (Flushed("Fail") /\ \E i \in 1..Len(flushed) : ~Conforms(flushed[i])) =>
        flush_result.kind = "Err"

C2_Witness ==
    /\ Flushed("Fail")
    /\ Len(flushed) = 2
    /\ Conforms(flushed[1]) /\ ~Conforms(flushed[2])
    /\ flush_result.kind = "Err"

\* C3: a flush error under Fail discards the whole pending buffer: nothing
\* of the failed cycle stays in the decoder, the timestamp side channel or
\* the metadata side channel, and a flush_buffer that directly follows
\* returns None.
C3_FailedFlushDiscardsBuffer ==
    /\ (Flushed("Fail") /\ flush_result.kind = "Err") =>
           /\ json_rows = <<>>
           /\ timestamp_builder = <<>>
           /\ kafka_metadata_builder.offset = <<>>
           /\ kafka_metadata_builder.partition = <<>>
           /\ kafka_metadata_builder.topic = <<>>
    /\ after_err => flush_result.kind = "None"

\* C4: at every flush_buffer the side-channel arrays are as long as the
\* decoder's output, so assembling the batch never panics.
C4_BatchAssemblyNeverPanics ==
    flush_result.kind # "Panic"

\* C5: when the pushed messages carry queue metadata, every returned batch
\* has, for each surviving row, the topic, partition and offset of the row's
\* message in the columns of those names.
C5_MetadataColumnsMatch ==
    (last_op = "flush_buffer" /\ HasJsonDecoder(format) /\ flush_result.kind = "Batch"
        /\ \A i \in 1..Len(flushed) : flushed[i].kafka_metadata.enabled) =>
        /\ Column("topic") =
               [i \in 1..Len(Survivors) |-> Survivors[i].kafka_metadata.topic]
        /\ Column("partition") =
               [i \in 1..Len(Survivors) |-> Survivors[i].kafka_metadata.partition]
        /\ Column("offset") =
               [i \in 1..Len(Survivors) |-> Survivors[i].kafka_metadata.offset]

\* C12: round trip under Fail: when every structured-Json row pushed since
\* the last flush conforms to the schema, flush_buffer returns a batch with
\* one row per pushed record, in push order across messages, whose value
\* column holds the encoded values and whose timestamp column holds the
\* arrival time of each record's message in nanoseconds.
C12_FailRoundTrip ==
    (Flushed("Fail") /\ IsJsonFormat(format) /\ flushed # <<>>
        /\ \A i \in 1..Len(flushed) : Conforms(flushed[i])) =>
        /\ flush_result.kind = "Batch"
        /\ Column("value") = [i \in 1..Len(flushed) |-> ValueOf(flushed[i])]
        /\ Column("_timestamp") =
               [i \in 1..Len(flushed) |-> to_nanos(flushed[i].timestamp)]

\* C13: every call to flush_buffer resets the buffered-row counter to zero
\* and the buffering clock to the current instant, whatever the format and
\* whatever it returns (a batch, an error or None).
C13_FlushResetsCounterAndClock ==
    last_op = "flush_buffer" => (buffered_count = 0 /\ buffered_since = "now")

\* C14: flush_buffer returns None exactly when the incremental decoder has
\* nothing buffered: always for a format that does not use it (RawString,
\* RawBytes, unstructured outputs), and for a Json-family format when no
\* row was accumulated since the last flush; with at least one row
\* buffered it returns a batch or an error.
C14_NoneExactlyWhenNothingBuffered ==
    last_op = "flush_buffer" =>
        IF UsesDecoder(format) /\ flushed # <<>>
        THEN flush_result.kind \in {"Batch", "Err"}
        ELSE flush_result.kind = "None"


(* --------------------- claims on deserialize_slice -------------------- *)
\* the records of the call just made that fail to decode, in record order:
\* texts that are not JSON and records too short for their envelope; Avro
\* records that do not decode; Protobuf records that are not a message
FailedRecords(call) ==
    LET Corrupt(rec) == rec = <<AvroCorrupt>>
        Fails(rec) == NotJson(rec) \/ TooShort(rec)
    IN IF IsJsonFormat(format) THEN SelectSeq(call.recs, Fails)
       ELSE IF IsAvro(format) THEN SelectSeq(call.recs, Corrupt)
       ELSE IF IsProtobuf(format) THEN SelectSeq(call.recs, NotProto)
       ELSE <<>>

\* the call just made failed to resolve its Avro schema
ResolutionFailed == errors = <<[kind |-> "Resolution", record |-> <<>>]>>

\* the entries of the value column that the caller's builders hold
ValueBuilder(b) == b[column_with_name("value") + 1]

\* C6: for a format other than Avro (and than Parquet, which is not an
\* input format), deserialize_slice decodes every framed
\* record of a message on its own: it returns one error per record that
\* fails, none when all succeed, and every record that does not fail is
\* appended (one row, one timestamp, one more buffered row for Json; one
\* value and one timestamp in the caller's builders for the raw formats),
\* whatever failed before it.
C6_RecordsDecodedIndependently ==
    [][(last_op' = "deserialize_slice" /\ ~IsAvro(format) /\ format # "Parquet") =>
        LET recs == last_call'.recs
            failed == Len(FailedRecords(last_call'))
            decoded == Len(recs) - failed
        IN /\ ~panicked'
           /\ Len(errors') = failed
           /\ \A i \in 1..Len(errors') : errors'[i].kind = "BadData"
           /\ IF UsesDecoder(format)
              THEN /\ Len(json_rows') = Len(json_rows) + decoded
                   /\ Len(timestamp_builder') = Len(timestamp_builder) + decoded
                   /\ buffered_count' = buffered_count + decoded
              ELSE /\ Len(ValueBuilder(buffer')) = Len(ValueBuilder(buffer)) + decoded
                   /\ Len(buffer'[timestamp_index + 1]) =
                          Len(buffer[timestamp_index + 1]) + decoded]_vars

\* C7: the records of a message are appended in input order, Avro
\* included: the rows (or the caller's values) added by a call are those of
\* its decoded records in record order, behind what was there, and the
\* errors it returns are those of its failed records in record order.
C7_RecordsAppendedInOrder ==
    [][(last_op' = "deserialize_slice" /\ ~ResolutionFailed') =>
        LET call == last_call'
            docs == IF IsAvro(format) THEN AcceptedAvro(call) ELSE Accepted(call)
            failed == FailedRecords(call)
        IN /\ ~panicked' =>
                /\ Len(errors') = Len(failed)
                /\ \A i \in 1..Len(failed) : errors'[i].record = failed[i]
           /\ IF UsesDecoder(format)
              THEN /\ Len(json_rows') = Len(json_rows) + Len(docs)
                   /\ SubSeq(json_rows', 1, Len(json_rows)) = json_rows
                   /\ \A i \in 1..Len(docs) :
                        json_rows'[Len(json_rows) + i].ok = Conforms(docs[i])
              ELSE ValueBuilder(buffer') =
                       ValueBuilder(buffer) \o
                           [i \in 1..Len(docs) |->
                               IF IsRawString(format)
                               THEN from_utf8_lossy(docs[i].rec)
                               ELSE docs[i].rec]]_vars

C7_Witness ==
    /\ last_op = "deserialize_slice" /\ format = "Json"
    /\ last_call.recs = <<(<<DocStr>>), <<Doc5>>>>
    /\ json_rows = <<[ok |-> FALSE, value |-> 0], [ok |-> TRUE, value |-> 5]>>
    /\ errors = <<>>

\* C15: for the structured Json format, every record of a message that is
\* not well-formed JSON is returned by deserialize_slice as a bad-data error
\* for that record, and adds no entry to the timestamp side channel, none to
\* the queue-metadata side channel and nothing to the buffered-row count:
\* these grow by the other records of the message only.
C15_MalformedJsonReportedAtOnce ==
    [][(last_op' = "deserialize_slice" /\ IsJsonFormat(format)) =>
        LET call == last_call'
            malformed == SelectSeq(call.recs, NotJson)
            others == Len(Accepted(call))
            queued == IF call.kafka_metadata.enabled THEN others ELSE 0
        IN /\ errors' = [i \in 1..Len(malformed) |-> BadDataError(malformed[i])]
           /\ Len(timestamp_builder') = Len(timestamp_builder) + others
           /\ Len(kafka_metadata_builder'.offset) =
                  Len(kafka_metadata_builder.offset) + queued
           /\ Len(kafka_metadata_builder'.partition) =
                  Len(kafka_metadata_builder.partition) + queued
           /\ Len(kafka_metadata_builder'.topic) =
                  Len(kafka_metadata_builder.topic) + queued
           /\ buffered_count' = buffered_count + others]_vars

\* C16: between flushes, for the structured Json format, the timestamp side
\* channel and, once queue metadata is in use, each of the offset, partition
\* and topic side channels hold exactly one entry per row accumulated in
\* the incremental decoder, after any sequence of deserialize_slice calls,
\* also one that mixes messages with and without queue metadata.
C16_SideChannelsInLockStep ==
    (IsJsonFormat(format) /\ last_op \in {"new", "deserialize_slice"}) =>
        /\ Len(timestamp_builder) = Len(json_rows)
        /\ kafka_metadata_builder.some =>
              /\ Len(kafka_metadata_builder.offset) = Len(json_rows)
              /\ Len(kafka_metadata_builder.partition) = Len(json_rows)
              /\ Len(kafka_metadata_builder.topic) = Len(json_rows)

\* the entries of the timestamp column that the caller's builders hold
TimestampBuilder(b) == b[timestamp_index + 1]

\* C17: for RawBytes and RawString every framed record of a message appends
\* exactly one row to the caller's builders: the value column gets the
\* record's bytes as they are (RawBytes) or their lossy UTF-8 text
\* (RawString), the timestamp column gets the arrival time of the message
\* in nanoseconds, and deserialize_slice returns no error.
C17_RawRecordsAppendOneRow ==
    [][(last_op' = "deserialize_slice" /\ format \in {"RawString", "RawBytes"}) =>
        LET recs == last_call'.recs
        IN /\ errors' = <<>>
           /\ ValueBuilder(buffer') =
                  ValueBuilder(buffer) \o
                      [i \in 1..Len(recs) |->
                          IF format = "RawString" THEN from_utf8_lossy(recs[i])
                          ELSE recs[i]]
           /\ TimestampBuilder(buffer') =
                  TimestampBuilder(buffer) \o
                      [i \in 1..Len(recs) |-> to_nanos(last_call'.timestamp)]]_vars

C17_Witness ==
    /\ last_op = "deserialize_slice" /\ format = "RawString"
    /\ last_call.recs = <<(<<255>>), <<Doc5>>>>
    /\ ValueBuilder(buffer) = <<(<<65533>>), <<Doc5>>>>
    /\ TimestampBuilder(buffer) =
           <<to_nanos(last_call.timestamp), to_nanos(last_call.timestamp)>>

\* the columns whose builders a message writes in the formats that write
\* into the caller's builders
WrittenColumns(call) ==
    IF call.kafka_metadata.enabled
    THEN {"value", "_timestamp", "offset", "partition", "topic"}
    ELSE {"value", "_timestamp"}

\* C18: for the formats that write into the caller's builders (RawString,
\* RawBytes, unstructured Json), after any sequence of deserialize_slice
\* calls all builders written for a message hold the same number of
\* entries: one value and one timestamp per record and, when the message
\* has queue metadata, one offset, one partition and one topic.
C18_CallerBuildersSameLength ==
    (last_op = "deserialize_slice" /\ (IsRawString(format) \/ format = "RawBytes")) =>
        \A c \in WrittenColumns(last_call) :
            Len(buffer[column_with_name(c) + 1]) = Len(ValueBuilder(buffer))

\* C19: when the schema of an Avro message does not resolve (it is not
\* cached and the resolver fails, so it is not cached after the call),
\* deserialize_slice returns exactly one error for the whole message and
\* decodes no record: the caller's builders, the incremental buffer, the
\* timestamp side channel and the buffered-row count are unchanged.
C19_UnresolvedSchemaFailsWholeMessage ==
    [][(last_op' = "deserialize_slice" /\ IsAvro(format)
            /\ last_call'.schema_id \notin schema_registry') =>
        /\ Len(errors') = 1
        /\ errors'[1].kind = "Resolution"
        /\ UNCHANGED <<buffer, json_rows, timestamp_builder, buffered_count,
                       schema_registry>>]_vars

C19_Witness ==
    /\ last_op = "deserialize_slice" /\ IsAvro(format)
    /\ last_call.schema_id \notin schema_registry
    /\ last_call.recs = <<(<<AvroLong>>)>>
    /\ schema_registry # {}
    /\ buffered_count = 1
    /\ Len(errors) = 1

\* C20: in the Avro path, with the schema resolved, a record of a message
\* that fails to decode is collected as one error and does not stop the
\* other records of the message from being decoded and appended; a failed
\* record adds no timestamp entry and nothing to the buffered-row count.
C20_AvroRecordsDecodedIndependently ==
    [][(last_op' = "deserialize_slice" /\ IsAvro(format)
            /\ last_call'.schema_id \in schema_registry') =>
        LET failed == FailedRecords(last_call')
            decoded == Len(last_call'.recs) - Len(failed)
        IN /\ errors' = [i \in 1..Len(failed) |-> BadDataError(failed[i])]
           /\ buffered_count' = buffered_count + decoded
           /\ IF format = "Avro"
              THEN /\ Len(json_rows') = Len(json_rows) + decoded
                   /\ Len(timestamp_builder') = Len(timestamp_builder) + decoded
                   /\ buffer' = buffer
              ELSE /\ Len(ValueBuilder(buffer')) = Len(ValueBuilder(buffer)) + decoded
                   /\ Len(TimestampBuilder(buffer')) =
                          Len(TimestampBuilder(buffer)) + decoded
                   /\ UNCHANGED <<json_rows, timestamp_builder>>]_vars

C20_Witness ==
    /\ last_op = "deserialize_slice" /\ format = "Avro"
    /\ last_call.recs = <<(<<AvroCorrupt>>), <<AvroLong>>>>
    /\ errors = <<BadDataError(<<AvroCorrupt>>)>>
    /\ json_rows = <<[ok |-> TRUE, value |-> 5]>>
    /\ Len(timestamp_builder) = 1
    /\ buffered_count = 1


(* ------------------- claims on the schema resolution ------------------ *)
\* C21: when the deserialize_slice call of an Avro message is abandoned
\* while it is suspended on the resolver, the deserializer's builder state
\* is untouched: from the start of the call to its abandonment no value, no
\* timestamp and no row has been appended and the buffered-row count is
\* unchanged.
C21_AbandonedResolutionLeavesNoTrace ==
    [][(last_op' \in {"suspended", "abandoned"}) =>
        UNCHANGED <<buffer, json_rows, timestamp_builder, kafka_metadata_builder,
                    buffered_count>>]_vars

C21_Witness ==
    /\ last_op = "abandoned"
    /\ format = "Avro"
    /\ Len(json_rows) = 1 /\ Len(timestamp_builder) = 1 /\ buffered_count = 1

\* C22: the schema cache only grows: an identifier that is cached stays
\* cached after every operation, and flush_buffer, the caller's finish and
\* the operations of the formats other than Avro never change the cache.
C22_SchemaCacheOnlyGrows ==
    [][/\ schema_registry \subseteq schema_registry'
       /\ (~IsAvro(format) \/ last_op' \in {"flush_buffer", "finish_builders"}) =>
              schema_registry' = schema_registry]_vars

C22_Witness ==
    /\ schema_registry # {}
    /\ last_op = "deserialize_slice"
    /\ last_call.schema_id \notin schema_registry
    /\ ResolutionFailed
    /\ buffer # NewDeserializer.buffer

\* C23: the resolver is invoked at most once per Avro message and only on
\* a cache miss: a message whose identifier has been resolved before does
\* not invoke it, and a resolution that fails is not tried again in the
\* same call.
C23_ResolverInvokedOnceOnMiss ==
    [][(last_op' = "deserialize_slice" /\ IsAvro(format)) =>
        LET id == last_call'.schema_id
        IN /\ last_call'.resolver_calls <= 1
           /\ last_call'.resolver_calls = 1 <=> id \notin schema_registry
           /\ id \in resolved => last_call'.resolver_calls = 0]_vars

C23_Witness ==
    /\ last_op = "deserialize_slice" /\ IsAvro(format)
    /\ last_call.schema_id \in resolved
    /\ last_call.resolver_calls = 0
    /\ Len(last_call.recs) = 2


(* ------------------- claims on the remaining formats ------------------ *)
\* C24: decoding a record with the Parquet format always fails with the
\* not-supported condition (the task panics) and never succeeds silently:
\* nothing is appended to any builder and the buffered-row count does not
\* change.
C24_ParquetAlwaysFails ==
    [][(last_op' = "deserialize_slice" /\ format = "Parquet") =>
        /\ panicked'
        /\ UNCHANGED <<buffer, json_rows, timestamp_builder, kafka_metadata_builder,
                       buffered_count>>]_vars

C24_Witness ==
    /\ last_op = "deserialize_slice" /\ format = "Parquet"
    /\ framing.some /\ Len(last_call.recs) = 2
    /\ panicked
    /\ buffer = NewDeserializer.buffer


\* C26: for structured Protobuf the records of a message that decode have
\* the effects that the same documents have as structured Json records:
\* one row each in the incremental buffer, one arrival timestamp each in the
\* side-channel timestamp builder, the queue metadata (when enabled) in the
\* side-channel offset, partition and topic builders and nothing in the
\* caller's builders, and one more buffered row each.
C26_ProtobufAsJson ==
    [][(last_op' = "deserialize_slice" /\ format = "Protobuf") =>
        LET call == last_call'
            docs == Accepted(call)
            json == DecodeRecords("Json", Des, [i \in 1..Len(docs) |-> docs[i].rec], 1,
                                  call.timestamp, call.kafka_metadata).d
        IN /\ json_rows' = json.json_rows
           /\ timestamp_builder' = json.timestamp_builder
           /\ kafka_metadata_builder' = json.kafka_metadata_builder
           /\ buffer' = json.buffer
           /\ buffered_count' = json.buffered_count]_vars


\* C27: with the Confluent envelope enabled for Json, a record shorter
\* than the 5-byte envelope is bad data: deserialize_slice returns a
\* bad-data error for it, decodes the other records of the message, and the
\* task does not panic.
C27_ShortEnvelopeIsBadData ==
    [][(last_op' = "deserialize_slice" /\ format = "JsonConfluent"
            /\ \E i \in 1..Len(last_call'.recs) : TooShort(last_call'.recs[i])) =>
        LET recs == last_call'.recs
            failed == FailedRecords(last_call')
        IN /\ ~panicked'
           /\ errors' = [i \in 1..Len(failed) |-> BadDataError(failed[i])]
           /\ Len(json_rows') = Len(json_rows) + Len(recs) - Len(failed)
           /\ buffered_count' = buffered_count + Len(recs) - Len(failed)]_vars


\* C28: for every format the buffered-row count equals the number of rows
\* decoded, into the caller's builders or into the incremental buffer,
\* since the most recent flush_buffer call (since the construction when
\* there was none).
C28_CountEqualsDecodedRows ==
    buffered_count = decoded_rows


\* C29: a Fail-policy flush that succeeds returns a batch with one column
\* per column of the target schema, in schema order: the side-channel
\* timestamps are the column at the timestamp index, the side-channel
\* topic, partition and offset (when queue metadata is in use) are the
\* columns of those names, and every other column is the decoder's column
\* of that name, at its place in the schema.
C29_FailBatchHasSchemaColumns ==
    [][(last_op' = "flush_buffer" /\ HasJsonDecoder(format) /\ bad_data = "Fail"
            /\ flush_result'.kind = "Batch") =>
        LET columns == flush_result'.columns
            decoded == DecoderColumns(json_rows)
            side == kafka_metadata_builder
            FromDecoder(name) ==
                decoded[CHOOSE c \in 1..Len(schema_without_timestamp) :
                            schema_without_timestamp[c] = name]
        IN /\ Len(columns) = Len(SchemaColumns)
           /\ \A c \in 1..Len(SchemaColumns) :
                columns[c] =
                    IF c = timestamp_index + 1 THEN timestamp_builder
                    ELSE IF side.some /\ SchemaColumns[c] = "topic" THEN side.topic
                    ELSE IF side.some /\ SchemaColumns[c] = "partition" THEN side.partition
                    ELSE IF side.some /\ SchemaColumns[c] = "offset" THEN side.offset
                    ELSE FromDecoder(SchemaColumns[c])]_vars

C29_Witness ==
    /\ Flushed("Fail") /\ flush_result.kind = "Batch"
    /\ kafka_metadata_builder.some
    /\ Column("value") = <<5, 5>>
    /\ Column("topic") = <<MetadataA.topic, MetadataB.topic>>
    /\ Column("offset") = <<MetadataA.offset, MetadataB.offset>>
    /\ Column("_timestamp") = <<1000000005, 2000000000>>


\* C30: with the unstructured JSON output of Protobuf or Avro every decoded
\* record goes straight into the caller's value and timestamp builders (its
\* JSON text and the arrival time of its message, in record order) and
\* not through the incremental buffer: the incremental buffer and the
\* side-channel timestamp builder stay empty, and flush_buffer returns None.
C30_UnstructuredBypassesBuffer ==
    [][(format \in {"AvroUnstructured", "ProtobufUnstructured"}) =>
        /\ json_rows' = <<>>
        /\ timestamp_builder' = <<>>
        /\ last_op' = "flush_buffer" => flush_result'.kind = "None"
        /\ (last_op' = "deserialize_slice" /\ ~ResolutionFailed') =>
              LET call == last_call'
                  docs == IF IsAvro(format) THEN AcceptedAvro(call) ELSE Accepted(call)
              IN /\ ValueBuilder(buffer') =
                        ValueBuilder(buffer) \o [i \in 1..Len(docs) |-> docs[i].rec]
                 /\ TimestampBuilder(buffer') =
                        TimestampBuilder(buffer) \o
                            [i \in 1..Len(docs) |-> to_nanos(call.timestamp)]]_vars

C30_Witness ==
    /\ format = "AvroUnstructured"
    /\ last_op = "flush_buffer" /\ flush_result.kind = "None"
    /\ ValueBuilder(buffer) = <<(<<Doc5>>), <<DocStr>>>>
    /\ Len(TimestampBuilder(buffer)) = 2
    /\ json_rows = <<>> /\ timestamp_builder = <<>>


(* ----------------------- claims on should_flush ----------------------- *)
\* C25: should_flush returns true once the rows decoded since the last
\* flush_buffer call have reached the count threshold or the time elapsed
\* since that call has reached the time threshold; once it would return
\* true it goes on doing so until flush_buffer is called; and a call of
\* should_flush changes nothing of the deserializer.
C25_ShouldFlushAtThreshold ==
    [][/\ (polled' # "NotCalled"
               /\ (decoded_rows' >= BatchSize \/ flush_elapsed' >= BatchLinger))
            => polled' = "true"
       /\ (should_flush(buffered_count, since_elapsed) /\ last_op' # "flush_buffer")
            => should_flush(buffered_count', since_elapsed')
       /\ polled' # "NotCalled"
            => UNCHANGED <<json_rows, timestamp_builder, kafka_metadata_builder,
                           buffered_count, buffered_since, buffer, schema_registry>>]_vars


(* ------------------------ claims on the dispatch ---------------------- *)
\* C31: for the Avro format deserialize_slice always takes the Avro batch
\* path, whatever the framing policy of the deserializer: the message is
\* not framed, its records do not go through deserialize_single, and the
\* unreachable Avro arm of deserialize_single never panics the call.
C31_AvroTakesBatchPath ==
    (IsAvro(format) /\ last_op = "deserialize_slice") =>
        /\ last_call.arm = "avro"
        /\ ~panicked

C31_Witness ==
    /\ format = "Avro" /\ framing.some
    /\ last_op = "deserialize_slice"
    /\ last_call.arm = "avro"
    /\ last_call.recs = <<(<<AvroLong>>), <<AvroCorrupt>>>>
    /\ Len(json_rows) = 1 /\ Len(errors) = 1


(* -------------------- claims on rows across flushes ------------------- *)
\* C32: a structured-Json record that is well-formed JSON but has not the
\* column types of the schema is accepted by deserialize_slice under Fail
\* and under Drop: no error is returned for it, it gets a row in the
\* decoder and an entry in the timestamp side channel and is counted; the
\* mismatch shows at the flush_buffer that ends its cycle (an error under
\* Fail, the row left out of the batch under Drop).
C32_TypeMismatchSurfacesAtFlush ==
    [][/\ (last_op' = "deserialize_slice" /\ IsJsonFormat(format)
             /\ \E i \in 1..Len(Accepted(last_call')) : ~Conforms(Accepted(last_call')[i])) =>
              LET docs == Accepted(last_call')
              IN /\ \A i \in 1..Len(errors') : NotJson(errors'[i].record)
                 /\ Len(json_rows') = Len(json_rows) + Len(docs)
                 /\ Len(timestamp_builder') = Len(timestamp_builder) + Len(docs)
                 /\ buffered_count' = buffered_count + Len(docs)
       /\ (last_op' = "flush_buffer" /\ IsJsonFormat(format)
             /\ \E i \in 1..Len(cycle) : ~Conforms(cycle[i])) =>
              IF bad_data = "Fail" THEN flush_result'.kind = "Err"
              ELSE /\ flush_result'.kind = "Batch"
                   /\ Len(flush_result'.columns[column_with_name("value") + 1]) =
                          Len(SelectSeq(cycle, Conforms))]_vars

C32_Witness ==
    /\ format = "Json" /\ bad_data = "Drop"
    /\ last_op = "deserialize_slice"
    /\ last_call.recs = <<(<<DocStr>>)>>
    /\ errors = <<>>
    /\ json_rows = <<[ok |-> FALSE, value |-> 0]>>
    /\ Len(timestamp_builder) = 1 /\ buffered_count = 1

\* C33: whenever flush_buffer returns Some, a batch or an error, the
\* side-channel timestamp builder is empty afterwards: no timestamp entry
\* of the cycle just ended is left for the batch of a later cycle.
C33_TimestampsDrainedAtFlush ==
    (last_op = "flush_buffer" /\ flush_result.kind \in {"Batch", "Err"}) =>
        timestamp_builder = <<>>

\* C34: whenever flush_buffer returns a batch, under Fail or under Drop, the
\* offset, partition and topic side-channel builders are empty afterwards:
\* no metadata entry of the cycle just ended is left for a later cycle.
C34_MetadataDrainedAtFlush ==
    (last_op = "flush_buffer" /\ flush_result.kind = "Batch") =>
        /\ kafka_metadata_builder.offset = <<>>
        /\ kafka_metadata_builder.partition = <<>>
        /\ kafka_metadata_builder.topic = <<>>

\* C35: row conservation over any interleaving of pushes and flushes of a
\* Json-family deserializer: a batch takes its rows out of the incremental
\* buffer, so the rows returned in batches so far and the rows still
\* buffered are never more than the rows pushed so far (no row is in two
\* batches); and under Drop the rows returned so far, the rows excluded as
\* bad data so far and the rows still buffered are the rows pushed so far.
C35_RowConservation ==
    [][ledger'.kept =>
        /\ flush_result'.kind = "Batch" => json_rows' = <<>>
        /\ ledger'.returned + Len(json_rows') <= ledger'.pushed
        /\ bad_data = "Drop" =>
              ledger'.returned + ledger'.excluded + Len(json_rows') = ledger'.pushed]_vars

C35_Witness ==
    /\ ledger.kept /\ bad_data = "Drop"
    /\ ledger.pushed = 3 /\ ledger.returned = 1 /\ ledger.excluded = 1
    /\ Len(json_rows) = 1
    /\ last_op = "deserialize_slice"

\* C36: a flush_buffer call that returned a batch has emptied the
\* incremental buffer: the decoder holds no row after it, and a flush_buffer
\* that directly follows, with no deserialize_slice call in between,
\* returns None.
C36_FlushAfterBatchReturnsNone ==
    /\ (last_op = "flush_buffer" /\ flush_result.kind = "Batch") => json_rows = <<>>
    /\ after_batch => flush_result.kind = "None"

C36_Witness ==
    /\ last_op = "flush_buffer" /\ after_batch
    /\ flush_result.kind = "None"
    /\ bad_data = "Fail" /\ format = "Json"
    /\ json_rows = <<>> /\ buffered_count = 0

\* C37: for the structured Json format deserialize_slice never appends to
\* the builders the caller hands in: they are as they were after every
\* call, whatever the records and the queue metadata, and the decoded
\* records are in the incremental decoder and the side channels.
C37_JsonLeavesCallerBuilders ==
    [][(last_op' = "deserialize_slice" /\ IsJsonFormat(format)) =>
        /\ buffer' = buffer
        /\ Len(json_rows') = Len(json_rows) + Len(Accepted(last_call'))
        /\ Len(timestamp_builder') =
               Len(timestamp_builder) + Len(Accepted(last_call'))]_vars

C37_Witness ==
    /\ last_op = "deserialize_slice" /\ format = "Json"
    /\ last_call.kafka_metadata = MetadataB
    /\ last_call.recs = <<(<<Doc5>>), <<Doc5>>>>
    /\ kafka_metadata_builder.offset = <<MetadataB.offset, MetadataB.offset>>
    /\ buffer = NewDeserializer.buffer

\* C38: a FramingIterator terminates on every input and policy: each call
\* to next that yields a record strictly increases the offset, at most
\* len(input) records are yielded, every record is a slice
\* buf[prev..prev + k] within the bounds of the input (also when
\* max_line_length is 0), and once next has returned None no later call
\* yields a record.
C38_FramingTerminates ==
    [][/\ fi_out' # fi_out =>
            /\ fi_offset' > fi_offset
            /\ fi_offset < Len(fi_buf)
            /\ \E k \in 0..(Len(fi_buf) - fi_offset) :
                   fi_out' = Append(fi_out, Slice(fi_buf, fi_offset, fi_offset + k))
       /\ Len(fi_out') <= Len(fi_buf)
       /\ fi_done => (fi_done' /\ fi_out' = fi_out /\ fi_offset' = fi_offset)
       /\ fi_done' => fi_offset' >= Len(fi_buf)]_vars

C38_Witness ==
    /\ fi_done /\ fi_framing = Newline(TRUE, 0)
    /\ fi_buf = <<NL, 97, NL, 98>>
    /\ fi_out = <<(<<>>), <<>>, <<>>>>
    /\ fi_offset = 5

\* C39: with newline framing and no cap, framing loses nothing but
\* delimiters: no record yielded contains a newline byte, and once the
\* iterator has ended the records joined with a newline are the input, or
\* the input without its one final newline.
C39_FramingLosesOnlyDelimiters ==
    (fi_framing.some /\ ~fi_framing.capped) =>
        /\ \A i \in 1..Len(fi_out) :
              \A j \in 1..Len(fi_out[i]) : fi_out[i][j] # NL
        /\ fi_done =>
              \/ JoinNL(fi_out) = fi_buf
              \/ JoinNL(fi_out) \o <<NL>> = fi_buf

C39_Witness ==
    /\ fi_done /\ fi_framing = Newline(FALSE, 0)
    /\ fi_buf = <<97, NL, 98, NL>>
    /\ fi_out = <<(<<97>>), <<98>>>>
    /\ JoinNL(fi_out) \o <<NL>> = fi_buf

====
